---------------------------- MODULE Spec2Model ----------------------------
(***************************************************************************)
(* Model of the invoice extraction service (ml-service/ml_service.py) and  *)
(* of the feedback analysis (ml-service/train_model.py).                   *)
(*                                                                         *)
(* Strings the code inspects character by character (amount tokens, count  *)
(* tokens, feedback texts) are tuples of one-character strings.  TLA+      *)
(* strings are ASCII, so the Czech keywords are written without their      *)
(* diacritics ("soucet" for "součet", "zaklad" for "základ", "uhrade" for  *)
(* "úhradě", "kc" for "kč", "predmet", "nazev", "ucel", "castka") and the  *)
(* euro sign is the word "euro_sign".  The character "\t" stands for every *)
(* whitespace character other than the plain space that the class \s of    *)
(* the patterns admits (tab, line feed, no-break space).                   *)
(***************************************************************************)
EXTENDS Integers, Sequences, FiniteSets, TLC

VARIABLES
    text,               \* extract_with_patterns: the argument, as its pattern matches
    extracted,          \* extract_with_patterns: the record being filled
    all_amounts,        \* extract_with_patterns: the plausible candidates
    md_values,          \* extract_with_patterns: accepted line-item counts
    md_rates,           \* extract_with_patterns: accepted line-item rates
    pc,                 \* extract_with_patterns: position in the function
    pi,                 \* index into amount_patterns / client_patterns
    mi,                 \* index of the current match of the current pattern
    last,               \* the outcome of the amount match processed last
    store,              \* the feedback file: "missing", "unreadable" or "ok"
    content,            \* the feedback file: the list it holds
    feedback,           \* main / analyze_corrections: the loaded list
    entry_index,        \* analyze_corrections: position of the loop of line 43
    patterns,           \* analyze_corrections: the frequency tables
    corrections_count,  \* analyze_corrections: the counters
    analysis,           \* main: what analyze_corrections returned
    apc                 \* position in main / analyze_corrections

evars == <<text, extracted, all_amounts, md_values, md_rates, pc, pi, mi, last>>

avars == <<store, content, feedback, entry_index, patterns, corrections_count,
           analysis, apc>>

vars == <<evars, avars>>

---------------------------------------------------------------------------
(* Bounds of the model.                                                    *)

MaxAmounts == 2         \* amount mentions in a text
MaxItems == 2           \* "MD <count> <rate>" lines in a text
MaxLines == 4           \* lines of a text, as the client patterns see them
MaxFeedback == 3        \* entries of the feedback file
FracDigits == 2         \* fractional digits kept when a float is compared

---------------------------------------------------------------------------
(* Characters and Python's string methods.                                 *)

Digits == {"0", "1", "2", "3", "4", "5", "6", "7", "8", "9"}

DigitVal(c) ==
    CASE c = "0" -> 0 [] c = "1" -> 1 [] c = "2" -> 2 [] c = "3" -> 3
      [] c = "4" -> 4 [] c = "5" -> 5 [] c = "6" -> 6 [] c = "7" -> 7
      [] c = "8" -> 8 [] c = "9" -> 9

\* str.isspace of one character
IsSpace(c) == c \in {" ", "\t"}

\* s.strip()
RECURSIVE Strip(_)
Strip(s) ==
    IF s = <<>> THEN s
    ELSE IF IsSpace(Head(s)) THEN Strip(Tail(s))
    ELSE IF IsSpace(s[Len(s)]) THEN Strip(SubSeq(s, 1, Len(s) - 1))
    ELSE s

\* s.replace(old, '') and s.replace(old, new) for one-character old
Remove(s, old) == SelectSeq(s, LAMBDA c : c # old)

Replace(s, old, new) == [i \in 1..Len(s) |-> IF s[i] = old THEN new ELSE s[i]]

Count(s, c) == Cardinality({i \in 1..Len(s) : s[i] = c})

\* the index of the last occurrence of c in s, 0 when there is none
LastIndex(s, c) ==
    IF Count(s, c) = 0 THEN 0
    ELSE CHOOSE i \in 1..Len(s) : s[i] = c /\ \A j \in (i + 1)..Len(s) : s[j] # c

\* parts = s.split('.'); if len(parts) > 2: ''.join(parts[:-1]) + '.' + parts[-1]
CollapseDots(s) ==
    IF Count(s, ".") + 1 > 2
    THEN LET k == LastIndex(s, ".")
         IN  Remove(SubSeq(s, 1, k - 1), ".") \o SubSeq(s, k, Len(s))
    ELSE s

\* amount_str of lines 86-93: only the plain space is removed
NormalizeAmount(tok) ==
    CollapseDots(Replace(Remove(Strip(tok), " "), ",", "."))

\* rate_str of lines 163 and 189: no collapse of dots
NormalizeRate(tok) == Replace(Remove(Strip(tok), " "), ",", ".")

\* float(s) raises no ValueError: digits with at most one point, at least one
\* digit, white space allowed around but not inside
IsFloat(s) ==
    LET t == Strip(s)
    IN  /\ t # <<>>
        /\ \A i \in 1..Len(t) : t[i] \in Digits \cup {"."}
        /\ Count(t, ".") <= 1
        /\ Count(t, ".") < Len(t)

RECURSIVE DigitsValue(_)
DigitsValue(s) ==
    IF s = <<>> THEN 0 ELSE 10 * DigitsValue(SubSeq(s, 1, Len(s) - 1)) + DigitVal(s[Len(s)])

\* the first FracDigits digits of a fraction, padded with zeros
FracValue(s) ==
    DigitsValue([i \in 1..FracDigits |-> IF i <= Len(s) THEN s[i] ELSE "0"])

\* float(s) for an s that IsFloat: integer part and fraction
FloatValue(s) ==
    LET t == Strip(s)
        k == LastIndex(t, ".")
    IN  IF k = 0 THEN [ip |-> DigitsValue(t), fp |-> 0]
        ELSE [ip |-> DigitsValue(SubSeq(t, 1, k - 1)),
              fp |-> FracValue(SubSeq(t, k + 1, Len(t)))]

FloatLess(a, b) == a.ip < b.ip \/ (a.ip = b.ip /\ a.fp < b.fp)

\* lo < v < hi for integers lo and hi
Between(lo, v, hi) ==
    /\ v.ip > lo \/ (v.ip = lo /\ v.fp > 0)
    /\ v.ip < hi

\* int(s) of a digit string, and str(n) of a natural number
ParseInt(s) == DigitsValue(s)

RECURSIVE ToStr(_)
ToStr(n) ==
    IF n < 10 THEN <<CHOOSE c \in Digits : DigitVal(c) = n>>
    ELSE ToStr(n \div 10) \o <<CHOOSE c \in Digits : DigitVal(c) = n % 10>>

\* 'word' in matched_text.lower(), on the words of the matched text
HasWord(words, w) == \E i \in 1..Len(words) : words[i] = w

---------------------------------------------------------------------------
(* The argument of extract_with_patterns.  A text is given by what the     *)
(* patterns of the function find in it: re.search and re.finditer are the  *)
(* library's, the tables and what is done with each match are the code's.  *)
(* A search result is a sequence of zero or one captured group.            *)

AmountPatternCount == 7
ClientPatternCount == 6

\* The words of match.group(0) besides the amount, per entry of
\* amount_patterns: the label, what stands in the parentheses of
\* "celkem k uhrade (...)", the currency token.
MatchedWords(p) ==
    CASE p = 1 -> {<<"bez", "dph">>}
      [] p = 2 -> {<<"soucet">>}
      [] p = 3 -> {<<"zaklad", "dph">>}
      [] p = 4 -> {<<"celkem", "k", "uhrade", "czk">>,
                   <<"celkem", "k", "uhrade", "bez", "dph">>}
      [] p = 5 -> {<<"celkem", "k", "uhrade">>}
      [] p = 6 -> {<<"castka", "kc">>}
      [] p = 7 -> {<<"total", "eur">>, <<"total", "euro_sign">>}

\* "100,00", "495 000,00", "598 950,00", "100 000 000,00", and
\* "495<tab>000,00", whose thousands separator is not the plain space
SpacedTokens ==
    { <<"1", "0", "0", ",", "0", "0">>,
      <<"4", "9", "5", " ", "0", "0", "0", ",", "0", "0">>,
      <<"5", "9", "8", " ", "9", "5", "0", ",", "0", "0">>,
      <<"1", "0", "0", " ", "0", "0", "0", " ", "0", "0", "0", ",", "0", "0">>,
      <<"4", "9", "5", "\t", "0", "0", "0", ",", "0", "0">> }

\* "1,234,567.89": only the last three patterns admit commas before the point
CommaTokens == { <<"1", ",", "2", "3", "4", ",", "5", "6", "7", ".", "8", "9">> }

\* the tokens the model lets entry p of amount_patterns capture
AmountTokens(p) ==
    IF p <= 4 THEN SpacedTokens
    ELSE IF p <= 6
    THEN { <<"1", "0", "0", ",", "0", "0">>,
           <<"4", "9", "5", " ", "0", "0", "0", ",", "0", "0">>,
           <<"5", "9", "8", " ", "9", "5", "0", ",", "0", "0">> }
    ELSE { <<"5", "9", "8", " ", "9", "5", "0", ",", "0", "0">> } \cup CommaTokens

AmountMentions ==
    UNION { [pat : {p}, words : MatchedWords(p), tok : AmountTokens(p)] :
            p \in 1..AmountPatternCount }

EmptyText ==
    [ invnum  |-> <<<<>>, <<>>, <<>>, <<>>>>,   \* per entry of invoice_num_patterns
      project |-> <<<<>>, <<>>>>,               \* per entry of project_patterns
      amounts |-> <<>>,                         \* amount mentions, in text order
      date    |-> <<<<>>, <<>>, <<>>>>,         \* per entry of invoice_date_patterns
      due     |-> <<<<>>, <<>>>>,               \* per entry of due_date_patterns
      md      |-> <<>>,                         \* "MD <count> <rate>" lines, in text order
      pocet   |-> <<>>,                         \* search of "pocet mj"
      cena    |-> <<>>,                         \* search of "cena mj"
      lines   |-> <<>>,                         \* the lines, as the client patterns see them
      buyer   |-> <<>>,                         \* search of the "buyer" pattern
      generic |-> <<>> ]                        \* search of the "client" pattern

\* the record of lines 26-37
Defaults ==
    [ projectName    |-> "",
      invoicedTotal  |-> <<>>,
      currency       |-> "CZK",
      exchangeRate   |-> "",
      invoiceDate    |-> "",
      invoiceDueDate |-> "",
      invoiceNumber  |-> "",
      numberOfMDs    |-> <<>>,
      mdRate         |-> <<>>,
      client         |-> [src |-> "", line |-> 0] ]

NoLast == [tok |-> <<>>, amount |-> <<>>, outcome |-> "none"]

---------------------------------------------------------------------------
(* extract_with_patterns, lines 41-65: invoice number and project name.    *)

\* the first pattern of the table that matches, 0 when none does
FirstMatching(results) ==
    IF \A i \in 1..Len(results) : results[i] = <<>> THEN 0
    ELSE CHOOSE i \in 1..Len(results) :
             results[i] # <<>> /\ \A j \in 1..(i - 1) : results[j] = <<>>

ExtractInvoiceNumber ==
    /\ pc = "invnum"
    /\ LET k == FirstMatching(text.invnum)
       IN  extracted' = IF k = 0 THEN extracted
                        ELSE [extracted EXCEPT !.invoiceNumber = text.invnum[k][1]]
    /\ pc' = "project"
    /\ UNCHANGED <<text, all_amounts, md_values, md_rates, pi, mi, last>>
    /\ UNCHANGED avars

\* 5 < len(candidate) < 100
ProjectAccepted(candidate) == 5 < Len(candidate) /\ Len(candidate) < 100

\* the first pattern whose match passes the length test (the loop breaks only then)
ExtractProjectName ==
    /\ pc = "project"
    /\ LET ok == {i \in 1..Len(text.project) :
                     text.project[i] # <<>> /\ ProjectAccepted(text.project[i][1])}
       IN  extracted' = IF ok = {} THEN extracted
                        ELSE LET k == CHOOSE i \in ok : \A j \in ok : i <= j
                             IN  [extracted EXCEPT !.projectName = text.project[k][1]]
    /\ pc' = "amounts"
    /\ pi' = 1
    /\ mi' = 1
    /\ UNCHANGED <<text, all_amounts, md_values, md_rates, last>>
    /\ UNCHANGED avars

---------------------------------------------------------------------------
(* extract_with_patterns, lines 69-121: the total without VAT.             *)

MinAmount == 100
MaxAmount == 100000000

\* re.finditer(pattern, text, re.IGNORECASE) for entry p of amount_patterns
Matches(p) == SelectSeq(text.amounts, LAMBDA m : m.pat = p)

\* 100 < amount < 100000000
Plausible(amount) == Between(MinAmount, amount, MaxAmount)

\* line 101: 'eur' in match.group(0).lower() or the euro sign in match.group(0)
CandidateCurrency(words) ==
    IF HasWord(words, "eur") \/ HasWord(words, "euro_sign") THEN "EUR" ELSE "CZK"

\* lines 107 and 111: 'eur' in match.group(0).lower()
LabeledCurrency(words) == IF HasWord(words, "eur") THEN "EUR" ELSE "CZK"

\* line 105
IsVatExclusive(words) == HasWord(words, "bez") /\ HasWord(words, "dph")

\* line 109
IsVatBreakdown(words) == HasWord(words, "soucet") \/ HasWord(words, "zaklad")

\* The break of lines 108 and 112 leaves the loop over the matches of the
\* current pattern: the loop over amount_patterns goes on.
AfterBreak(p) == [pi |-> p, mi |-> Len(Matches(p)) + 1]

\* one iteration of the loop of line 84
AmountMatch ==
    /\ pc = "amounts"
    /\ pi <= AmountPatternCount
    /\ mi <= Len(Matches(pi))
    /\ LET match == Matches(pi)[mi]
           amount_str == NormalizeAmount(match.tok)
       IN  IF ~IsFloat(amount_str)
           THEN \* except ValueError: continue
                /\ last' = [tok |-> match.tok, amount |-> amount_str, outcome |-> "discarded"]
                /\ mi' = mi + 1
                /\ UNCHANGED <<pi, all_amounts, extracted>>
           ELSE IF ~Plausible(FloatValue(amount_str))
           THEN /\ last' = [tok |-> match.tok, amount |-> amount_str, outcome |-> "implausible"]
                /\ mi' = mi + 1
                /\ UNCHANGED <<pi, all_amounts, extracted>>
           ELSE /\ last' = [tok |-> match.tok, amount |-> amount_str, outcome |-> "candidate"]
                /\ all_amounts' = Append(all_amounts,
                        [ amount       |-> amount_str,
                          value        |-> FloatValue(amount_str),
                          currency     |-> CandidateCurrency(match.words),
                          matched_text |-> match.words,
                          pat          |-> pi,
                          idx          |-> mi ])
                /\ IF IsVatExclusive(match.words) \/ IsVatBreakdown(match.words)
                   THEN /\ extracted' = [extracted EXCEPT
                                            !.invoicedTotal = amount_str,
                                            !.currency = LabeledCurrency(match.words)]
                        /\ pi' = AfterBreak(pi).pi
                        /\ mi' = AfterBreak(pi).mi
                   ELSE /\ mi' = mi + 1
                        /\ UNCHANGED <<pi, extracted>>
    /\ UNCHANGED <<text, md_values, md_rates, pc>>
    /\ UNCHANGED avars

\* the loop of line 82 takes the next pattern
AmountNextPattern ==
    /\ pc = "amounts"
    /\ pi <= AmountPatternCount
    /\ mi > Len(Matches(pi))
    /\ pi' = pi + 1
    /\ mi' = 1
    /\ UNCHANGED <<text, extracted, all_amounts, md_values, md_rates, pc, last>>
    /\ UNCHANGED avars

\* list.sort(key=value, reverse=True): stable, descending
InsertDesc(t, x) ==
    LET k == Cardinality({i \in 1..Len(t) : ~FloatLess(t[i].value, x.value)})
    IN  SubSeq(t, 1, k) \o <<x>> \o SubSeq(t, k + 1, Len(t))

RECURSIVE SortDesc(_)
SortDesc(s) ==
    IF Len(s) <= 1 THEN s
    ELSE InsertDesc(SortDesc(SubSeq(s, 1, Len(s) - 1)), s[Len(s)])

\* the list is not sorted before its head is taken
LargestUnsorted(cands) == cands[1]

\* lines 118-119
Largest(cands) == SortDesc(cands)[1]

\* lines 117-121
UseLargest ==
    /\ pc = "amounts"
    /\ pi > AmountPatternCount
    /\ IF extracted.invoicedTotal = <<>> /\ all_amounts # <<>>
       THEN /\ all_amounts' = SortDesc(all_amounts)
            /\ extracted' = [extracted EXCEPT
                                !.invoicedTotal = Largest(all_amounts).amount,
                                !.currency = Largest(all_amounts).currency]
       ELSE UNCHANGED <<all_amounts, extracted>>
    /\ pc' = "dates"
    /\ UNCHANGED <<text, md_values, md_rates, pi, mi, last>>
    /\ UNCHANGED avars

---------------------------------------------------------------------------
(* extract_with_patterns, lines 125-145: the dates, kept verbatim.         *)

ExtractDates ==
    /\ pc = "dates"
    /\ LET d == FirstMatching(text.date)
           e == FirstMatching(text.due)
       IN  extracted' = [extracted EXCEPT
               !.invoiceDate = IF d = 0 THEN @ ELSE text.date[d][1],
               !.invoiceDueDate = IF e = 0 THEN @ ELSE text.due[e][1]]
    /\ pc' = "md"
    /\ mi' = 1
    /\ UNCHANGED <<text, all_amounts, md_values, md_rates, pi, last>>
    /\ UNCHANGED avars

---------------------------------------------------------------------------
(* extract_with_patterns, lines 150-195: man-days and their rate.          *)

MinCount == 0
MaxCount == 1000
MinRate == 100
MaxRate == 100000

\* "0", "8", "10", "1000"
CountTokens == { <<"0">>, <<"8">>, <<"1", "0">>, <<"1", "0", "0", "0">> }

\* "15 000,00", "16 000,00", "50,00" and "1,500,00"
RateTokens ==
    { <<"1", "5", " ", "0", "0", "0", ",", "0", "0">>,
      <<"1", "6", " ", "0", "0", "0", ",", "0", "0">>,
      <<"5", "0", ",", "0", "0">>,
      <<"1", ",", "5", "0", "0", ",", "0", "0">> }

\* A line item: the two groups of md_line_pattern.  intRaises marks a count
\* of more digits than int() converts (it raises ValueError); of such a
\* count the model keeps the mark only.
ItemMentions ==
    [count : CountTokens, intRaises : {FALSE}, rate : RateTokens]
        \cup [count : {<<"9">>}, intRaises : {TRUE}, rate : RateTokens]

\* 0 < md_count < 1000
CountAccepted(md_count) == MinCount < md_count /\ md_count < MaxCount

\* 100 < rate < 100000
RateAccepted(rate) == Between(MinRate, rate, MaxRate)

\* md_values after the try block of lines 156-168 for one match
ValuesAfter(values, match) ==
    IF match.intRaises THEN values
    ELSE IF CountAccepted(ParseInt(match.count))
         THEN Append(values, ParseInt(match.count))
         ELSE values

\* md_rates after the try block of lines 156-168 for one match
RatesAfter(rates, match) ==
    LET rate_str == NormalizeRate(match.rate)
    IN  IF match.intRaises \/ ~IsFloat(rate_str) THEN rates
        ELSE IF RateAccepted(FloatValue(rate_str))
             THEN Append(rates, rate_str)
             ELSE rates

\* one iteration of the loop of line 155
MDMatch ==
    /\ pc = "md"
    /\ mi <= Len(text.md)
    /\ md_values' = ValuesAfter(md_values, text.md[mi])
    /\ md_rates' = RatesAfter(md_rates, text.md[mi])
    /\ mi' = mi + 1
    /\ UNCHANGED <<text, extracted, all_amounts, pc, pi, last>>
    /\ UNCHANGED avars

RECURSIVE Sum(_)
Sum(s) == IF s = <<>> THEN 0 ELSE Head(s) + Sum(Tail(s))

\* the matches are counted, not their counts summed
NumberOfMatches(values) ==
    IF values # <<>> THEN ToStr(Len(values))
    ELSE IF text.pocet # <<>> THEN text.pocet[1]
         ELSE <<>>

\* lines 171-173 and 180-183
NumberOfMDs(values) ==
    IF values # <<>> THEN ToStr(Sum(values))
    ELSE IF text.pocet # <<>> THEN text.pocet[1]
         ELSE <<>>

\* the rate found last is used
MdRateLast(rates) ==
    IF rates # <<>> THEN rates[Len(rates)]
    ELSE IF text.cena # <<>>
              /\ IsFloat(NormalizeRate(text.cena[1]))
              /\ RateAccepted(FloatValue(NormalizeRate(text.cena[1])))
         THEN NormalizeRate(text.cena[1])
         ELSE <<>>

\* lines 176-177 and 186-195
MdRate(rates) ==
    IF rates # <<>> THEN rates[1]
    ELSE IF text.cena # <<>>
              /\ IsFloat(NormalizeRate(text.cena[1]))
              /\ RateAccepted(FloatValue(NormalizeRate(text.cena[1])))
         THEN NormalizeRate(text.cena[1])
         ELSE <<>>

MDFinish ==
    /\ pc = "md"
    /\ mi > Len(text.md)
    /\ extracted' = [extracted EXCEPT
                        !.numberOfMDs = NumberOfMDs(md_values),
                        !.mdRate = MdRate(md_rates)]
    /\ pc' = "client"
    /\ pi' = 1
    /\ UNCHANGED <<text, all_amounts, md_values, md_rates, mi, last>>
    /\ UNCHANGED avars

---------------------------------------------------------------------------
(* extract_with_patterns, lines 200-218: the client.                       *)
(*                                                                         *)
(* The four "odberatel" patterns are  label \s* :? \s* ([^\n]*\n){k}       *)
(* ([^\n]+ suffix)  with k = 3, 2, 1, 0 in the order of the table.  The    *)
(* text is its sequence of lines, each of a kind:                          *)
(*   "label"   the label with nothing after it on the line                 *)
(*   "labelcz" the label followed, on the line, by a name with one of the  *)
(*             suffixes s.r.o. / a.s. / spol.                              *)
(*   "blank"   white space only                                            *)
(*   "plain"   text without a recognized suffix                            *)
(*   "cz"      a name with one of the suffixes s.r.o. / a.s. / spol.       *)
(*   "czlong"  such a name of 200 characters or more                       *)
(*   "ext"     a name with a suffix of the first pattern's longer list     *)
(*             only (spol, Ltd., Inc., LLC, GmbH, Corp.)                   *)

LineKinds == {"label", "labelcz", "blank", "plain", "cz", "czlong", "ext"}

IsLabel(kind) == kind \in {"label", "labelcz"}

\* the number of line ends the pattern passes between the label and the name
Skip(p) == 4 - p

\* the suffix alternation of entry p of client_patterns matches in the line
Recognized(p, kind) ==
    IF p = 1 THEN kind \in {"cz", "czlong", "ext", "labelcz"}
    ELSE kind \in {"cz", "czlong", "labelcz"}

\* The lines in which the \s* after the label at line l may end: that line,
\* and, when nothing but white space follows the label on it, the blank
\* lines after it and the first line that is not blank.
SpaceEnds(l) ==
    IF text.lines[l] = "labelcz" THEN {l}
    ELSE LET n == Len(text.lines)
             nonblank == {j \in (l + 1)..n : text.lines[j] # "blank"}
             e == IF nonblank = {} THEN n
                  ELSE CHOOSE j \in nonblank : \A i \in nonblank : j <= i
         IN  l..e

\* the ends of \s* from which entry p matches
MatchEnds(p, l) ==
    {j \in SpaceEnds(l) :
        j + Skip(p) <= Len(text.lines) /\ Recognized(p, text.lines[j + Skip(p)])}

Max(S) == CHOOSE x \in S : \A y \in S : y <= x
Min(S) == CHOOSE x \in S : \A y \in S : x <= y

\* The line re.search captures for entry p: the leftmost label from which
\* the pattern matches, \s* taking as much as it can (it is greedy).
CapturedLine(p) ==
    LET starts == {l \in 1..Len(text.lines) :
                      IsLabel(text.lines[l]) /\ MatchEnds(p, l) # {}}
    IN  IF starts = {} THEN 0
        ELSE Max(MatchEnds(p, Min(starts))) + Skip(p)

\* len(client_name) > 3 and len(client_name) < 200, after the clean-up
LengthOk(kind) == kind \notin {"czlong", "short"}

\* re.search for entry p of client_patterns: zero or one match
ClientSearch(p) ==
    IF p <= 4
    THEN IF CapturedLine(p) = 0 THEN <<>>
         ELSE <<[src |-> "odberatel", line |-> CapturedLine(p),
                 ok |-> LengthOk(text.lines[CapturedLine(p)])]>>
    ELSE IF p = 5
    THEN IF text.buyer = <<>> THEN <<>>
         ELSE <<[src |-> "buyer", line |-> 0, ok |-> LengthOk(text.buyer[1])]>>
    ELSE IF text.generic = <<>> THEN <<>>
         ELSE <<[src |-> "client", line |-> 0, ok |-> LengthOk(text.generic[1])]>>

\* the "odberatel" entries are taken nearest line first
ClientPatternNearestFirst(i) == IF i <= 4 THEN 5 - i ELSE i

\* the order in which the loop of line 209 takes the entries of client_patterns
ClientPatternAt(i) == i

\* one iteration of the loop of line 209
ClientPattern ==
    /\ pc = "client"
    /\ pi <= ClientPatternCount
    /\ LET found == ClientSearch(ClientPatternAt(pi))
       IN  IF found # <<>> /\ found[1].ok
           THEN /\ extracted' = [extracted EXCEPT
                       !.client = [src |-> found[1].src, line |-> found[1].line]]
                /\ pc' = "default"
                /\ UNCHANGED pi
           ELSE /\ pi' = pi + 1
                /\ UNCHANGED <<extracted, pc>>
    /\ UNCHANGED <<text, all_amounts, md_values, md_rates, mi, last>>
    /\ UNCHANGED avars

\* no entry of client_patterns gave a client
ClientNone ==
    /\ pc = "client"
    /\ pi > ClientPatternCount
    /\ pc' = "default"
    /\ UNCHANGED <<text, extracted, all_amounts, md_values, md_rates, pi, mi, last>>
    /\ UNCHANGED avars

---------------------------------------------------------------------------
(* extract_with_patterns, lines 221-224.                                   *)

\* the placeholder is left out
DefaultWithoutPlaceholder(invoiceNumber) == invoiceNumber

\* extracted['invoiceNumber'] or 'Imported Invoice'
DefaultProjectName(invoiceNumber) ==
    IF invoiceNumber # "" THEN invoiceNumber ELSE "Imported Invoice"

Return ==
    /\ pc = "default"
    /\ extracted' = IF extracted.projectName = ""
                    THEN [extracted EXCEPT
                             !.projectName = DefaultProjectName(extracted.invoiceNumber)]
                    ELSE extracted
    /\ pc' = "done"
    /\ UNCHANGED <<text, all_amounts, md_values, md_rates, pi, mi, last>>
    /\ UNCHANGED avars

---------------------------------------------------------------------------
(* The texts of the model.                                                 *)

HeadText(t) ==
    \E n \in { <<<<>>, <<>>, <<>>, <<>>>>,
               <<<<"202511038">>, <<>>, <<"fv-7">>, <<>>>>,
               <<<<>>, <<"inv-9">>, <<>>, <<>>>> },
       p \in { <<<<>>, <<>>>>,
               <<<<"Audit">>, <<"Web redesign">>>>,
               <<<<"Data migration">>, <<"Web redesign">>>> },
       d \in { <<<<>>, <<>>, <<>>>>, <<<<>>, <<"3/12/2025">>, <<"03.12.2025">>>> },
       e \in { <<<<>>, <<>>>>, <<<<"02.01.2026">>, <<"2-1-26">>>> } :
        t = [EmptyText EXCEPT !.invnum = n, !.project = p, !.date = d, !.due = e]

AmountText(t) ==
    \E k \in 0..MaxAmounts : \E a \in [1..k -> AmountMentions] :
        t = [EmptyText EXCEPT !.amounts = a]

\* "07" after "pocet mj", "14 500,00" after "cena mj"
ItemText(t) ==
    \E k \in 0..MaxItems : \E m \in [1..k -> ItemMentions] :
        \E f \in { [pocet |-> <<>>, cena |-> <<>>],
                   [pocet |-> <<<<"0", "7">>>>, cena |-> <<>>],
                   [pocet |-> <<<<"0", "7">>>>,
                    cena |-> <<<<"1", "4", " ", "5", "0", "0", ",", "0", "0">>>>] } :
            t = [EmptyText EXCEPT !.md = m, !.pocet = f.pocet, !.cena = f.cena]

ClientText(t) ==
    \E k \in 0..MaxLines : \E l \in [1..k -> LineKinds] :
        \E f \in { [buyer |-> <<>>, generic |-> <<>>],
                   [buyer |-> <<>>, generic |-> <<"short">>],
                   [buyer |-> <<"ext">>, generic |-> <<"plain">>] } :
            t = [EmptyText EXCEPT !.lines = l, !.buyer = f.buyer, !.generic = f.generic]

\* the call: lines 26-39
InitExtract ==
    /\ HeadText(text) \/ AmountText(text) \/ ItemText(text) \/ ClientText(text)
    /\ extracted = Defaults
    /\ all_amounts = <<>>
    /\ md_values = <<>>
    /\ md_rates = <<>>
    /\ pc = "invnum"
    /\ pi = 1
    /\ mi = 1
    /\ last = NoLast
    /\ store = "missing"
    /\ content = <<>>
    /\ feedback = <<>>
    /\ entry_index = 0
    /\ patterns = <<>>
    /\ corrections_count = <<>>
    /\ analysis = <<>>
    /\ apc = "idle"

NextExtract ==
    \/ ExtractInvoiceNumber
    \/ ExtractProjectName
    \/ AmountMatch
    \/ AmountNextPattern
    \/ UseLargest
    \/ ExtractDates
    \/ MDMatch
    \/ MDFinish
    \/ ClientPattern
    \/ ClientNone
    \/ Return

SpecExtract == InitExtract /\ [][NextExtract]_vars

---------------------------------------------------------------------------
(* Properties of extract_with_patterns.                                    *)

\* the amount mentions in the order the two loops visit them
RECURSIVE ScanFrom(_)
ScanFrom(p) == IF p > AmountPatternCount THEN <<>> ELSE Matches(p) \o ScanFrom(p + 1)

ScanOrder == ScanFrom(1)

IsCandidate(m) ==
    IsFloat(NormalizeAmount(m.tok)) /\ Plausible(FloatValue(NormalizeAmount(m.tok)))

IsLabeled(m) == IsVatExclusive(m.words) \/ IsVatBreakdown(m.words)

LabeledCandidates == {i \in 1..Len(ScanOrder) : IsCandidate(ScanOrder[i]) /\ IsLabeled(ScanOrder[i])}

Candidates == {i \in 1..Len(ScanOrder) : IsCandidate(ScanOrder[i])}

ValueOf(m) == FloatValue(NormalizeAmount(m.tok))

\* C1: when the text has a plausible candidate whose matched text carries a
\* VAT-exclusive or VAT-breakdown keyword, the returned invoicedTotal is the
\* normalized amount of the first such candidate in scanning order (patterns
\* in table order, matches in text order); no later labeled candidate
\* overwrites it.
C1_FirstLabeledWins ==
    (pc = "done" /\ LabeledCandidates # {})
        => extracted.invoicedTotal = NormalizeAmount(ScanOrder[Min(LabeledCandidates)].tok)

\* C2: with no labeled plausible candidate the returned invoicedTotal and
\* currency are those of a candidate of largest value among all plausible
\* candidates of all patterns; with no plausible candidate they stay "" and
\* "CZK"; and a non-empty invoicedTotal always has a value strictly between
\* 100 and 100000000.
C2_LargestFallback ==
    /\ (pc = "done" /\ LabeledCandidates = {} /\ Candidates # {})
         => \E i \in Candidates :
               /\ \A j \in Candidates : ~FloatLess(ValueOf(ScanOrder[i]), ValueOf(ScanOrder[j]))
               /\ extracted.invoicedTotal = NormalizeAmount(ScanOrder[i].tok)
               /\ extracted.currency = CandidateCurrency(ScanOrder[i].words)
    /\ (pc = "done" /\ Candidates = {})
         => extracted.invoicedTotal = <<>> /\ extracted.currency = "CZK"
    /\ extracted.invoicedTotal # <<>>
         => /\ IsFloat(extracted.invoicedTotal)
            /\ Plausible(FloatValue(extracted.invoicedTotal))

\* the fallback chose the second of two unlabeled candidates, the larger one
C2_Witness ==
    /\ pc = "done"
    /\ LabeledCandidates = {}
    /\ Cardinality(Candidates) = 2
    /\ FloatLess(ValueOf(ScanOrder[1]), ValueOf(ScanOrder[2]))
    /\ extracted.invoicedTotal = NormalizeAmount(ScanOrder[2].tok)
    /\ extracted.currency = "EUR"

\* the rule as stated: all white space removed, commas to points, every point
\* but the last dropped
RuleNormalize(tok) ==
    CollapseDots(Replace(SelectSeq(tok, LAMBDA c : ~IsSpace(c)), ",", "."))

\* C3: every captured amount token is normalized by the stated rule, and is
\* discarded as unparseable only when the result of the rule is not a valid
\* decimal number.
C3_NormalizationRule ==
    /\ last.outcome = "discarded" => ~IsFloat(RuleNormalize(last.tok))
    /\ last.outcome \in {"implausible", "candidate"} => last.amount = RuleNormalize(last.tok)

\* C4 as stated: the empty text gives a record with every field at its default.
C4_AllDefaults ==
    (pc = "done" /\ text = EmptyText) => extracted = Defaults

\* C4, amended: the empty text gives a record with every field at its default
\* but projectName, which is the placeholder "Imported Invoice".
C4_DefaultsButProjectName ==
    (pc = "done" /\ text = EmptyText)
        => extracted = [Defaults EXCEPT !.projectName = "Imported Invoice"]

C4_Witness == pc = "done" /\ text = EmptyText /\ extracted.currency = "CZK"

\* the line items whose count int() converts
Converted == {i \in 1..Len(text.md) : ~text.md[i].intRaises}

RECURSIVE SumOver(_, _)
SumOver(S, f) ==
    IF S = {} THEN 0 ELSE LET x == CHOOSE y \in S : TRUE IN f[x] + SumOver(S \ {x}, f)

CountOf == [i \in 1..Len(text.md) |-> IF text.md[i].intRaises THEN 0 ELSE ParseInt(text.md[i].count)]

\* C5 as stated: when the line-item pattern matches, numberOfMDs is the sum of
\* the counts of all matches, whatever their values.
C5_SumOfAllCounts ==
    (pc = "done" /\ text.md # <<>> /\ Converted = DOMAIN text.md)
        => extracted.numberOfMDs = ToStr(SumOver(DOMAIN text.md, CountOf))

InRangeCounts == {i \in Converted : MinCount < CountOf[i] /\ CountOf[i] < MaxCount}

\* C5, amended: when the line-item pattern matches, numberOfMDs is the sum of
\* the counts that int() converts and that lie strictly between 0 and 1000;
\* when no match has such a count the line items give nothing, and
\* numberOfMDs is what follows the "pocet mj" label, or "" without it.
C5_SumOfCountsInRange ==
    (pc = "done" /\ text.md # <<>>)
        => IF InRangeCounts # {}
           THEN extracted.numberOfMDs = ToStr(SumOver(InRangeCounts, CountOf))
           ELSE extracted.numberOfMDs = (IF text.pocet = <<>> THEN <<>> ELSE text.pocet[1])

\* "MD 10 ..." and "MD 8 ..." give "18"
C5_Witness ==
    /\ pc = "done"
    /\ Len(text.md) = 2
    /\ text.md[1].count = <<"1", "0">>
    /\ text.md[2].count = <<"8">>
    /\ extracted.numberOfMDs = <<"1", "8">>

\* C6 as stated: when the line-item pattern matches, mdRate is the normalized
\* rate of the first match in text order.
C6_FirstRate ==
    (pc = "done" /\ text.md # <<>>)
        => extracted.mdRate = NormalizeRate(text.md[1].rate)

UsableRates ==
    {i \in Converted : /\ IsFloat(NormalizeRate(text.md[i].rate))
                       /\ Between(MinRate, FloatValue(NormalizeRate(text.md[i].rate)), MaxRate)}

\* what follows the "cena mj" label, normalized, when it parses to a value
\* strictly between 100 and 100000
CenaFallback ==
    IF text.cena # <<>>
         /\ IsFloat(NormalizeRate(text.cena[1]))
         /\ Between(MinRate, FloatValue(NormalizeRate(text.cena[1])), MaxRate)
    THEN NormalizeRate(text.cena[1])
    ELSE <<>>

\* C6, amended: when the line-item pattern matches, mdRate is the normalized
\* rate of the first match in text order whose count int() converts and
\* whose rate parses to a value strictly between 100 and 100000; a later
\* match's rate is returned only when no earlier match has such a rate, and
\* when no match has one mdRate is the "cena mj" fallback.
C6_FirstUsableRate ==
    (pc = "done" /\ text.md # <<>>)
        => IF UsableRates # {}
           THEN extracted.mdRate = NormalizeRate(text.md[Min(UsableRates)].rate)
           ELSE extracted.mdRate = CenaFallback

\* two line items with usable, different rates: the first one's is returned
C6_Witness ==
    /\ pc = "done"
    /\ UsableRates = {1, 2}
    /\ NormalizeRate(text.md[1].rate) # NormalizeRate(text.md[2].rate)
    /\ extracted.mdRate = NormalizeRate(text.md[1].rate)

\* a single label, alone on its line, followed by lines that are names with a
\* Czech suffix or plain text
SimpleClientText ==
    /\ text.lines # <<>>
    /\ text.lines[1] = "label"
    /\ \A i \in 2..Len(text.lines) : text.lines[i] \in {"cz", "plain"}

\* the lines with a suffix among the n lines below the label
SuffixLines(n) == {i \in 2..(n + 1) : i <= Len(text.lines) /\ text.lines[i] = "cz"}

---------------------------------------------------------------------------
(* train_model.py.  A feedback entry is a JSON value:                      *)
(*   isDict        FALSE for a value that is no object (null, a string)    *)
(*   corrections   the fields whose flag is true                           *)
(*   rawText       <<>> for null, else <<the text>>                        *)
(*   correctedData <<>> for null, else <<the record>>                      *)

Fields == {"projectName", "invoicedTotal", "currency", "invoiceNumber"}

ContextProject == 50
ContextTotal == 30

UpperCase == <<"A", "B", "C", "D", "E", "F", "G", "H", "I", "J", "K", "L", "M", "N", "O", "P", "Q", "R", "S", "T", "U", "V", "W", "X", "Y", "Z">>
LowerCase == <<"a", "b", "c", "d", "e", "f", "g", "h", "i", "j", "k", "l", "m", "n", "o", "p", "q", "r", "s", "t", "u", "v", "w", "x", "y", "z">>

\* str.lower()
Lower(s) ==
    [i \in 1..Len(s) |->
        IF \E k \in 1..Len(UpperCase) : UpperCase[k] = s[i]
        THEN LowerCase[CHOOSE k \in 1..Len(UpperCase) : UpperCase[k] = s[i]]
        ELSE s[i]]

\* the positions (from 1) at which needle occurs in hay
Occurrences(hay, needle) ==
    {i \in 1..(Len(hay) - Len(needle) + 1) : SubSeq(hay, i, i + Len(needle) - 1) = needle}

\* needle in hay
Contains(hay, needle) == Occurrences(hay, needle) # {}

\* hay[a:b] of Python, for 0 <= a and b <= len(hay)
Slice(hay, a, b) == SubSeq(hay, a + 1, b)

\* line 59
ProjectPrefixes ==
    << <<"p", "r", "o", "j", "e", "c", "t">>,
       <<"d", "e", "s", "c", "r", "i", "p", "t", "i", "o", "n">>,
       <<"s", "e", "r", "v", "i", "c", "e">>,
       <<"i", "t", "e", "m">>,
       <<"p", "r", "e", "d", "m", "e", "t">>,
       <<"n", "a", "z", "e", "v">>,
       <<"u", "c", "e", "l">> >>

\* line 74
TotalKeywords ==
    << <<"c", "e", "l", "k", "e", "m">>,
       <<"t", "o", "t", "a", "l">>,
       <<"a", "m", "o", "u", "n", "t">>,
       <<"s", "u", "m", "a">>,
       <<"c", "a", "s", "t", "k", "a">>,
       <<"k", " ", "u", "h", "r", "a", "d", "e">> >>

CurrencyValues == {"", "CZK", "EUR"}

Range(f) == {f[i] : i \in DOMAIN f}

\* the tables and counters of lines 29-41; a key a defaultdict does not hold
\* counts 0
EmptyPatterns ==
    [ projectName   |-> [k \in Range(ProjectPrefixes) |-> 0],
      invoicedTotal |-> [k \in Range(TotalKeywords) |-> 0],
      currency      |-> [k \in CurrencyValues |-> 0],
      invoiceNumber |-> <<>> ]

EmptyCounts == [f \in Fields |-> 0]

\* re.finditer of a literal: the matches from left to right, none overlapping
RECURSIVE FindIter(_, _, _)
FindIter(hay, needle, from) ==
    LET later == {i \in Occurrences(hay, needle) : i >= from}
    IN  IF later = {} THEN <<>>
        ELSE <<Min(later)>> \o FindIter(hay, needle, Min(later) + Len(needle))

\* one more for every keyword of the list found in the context
TallyContext(table, keywords, context) ==
    [k \in DOMAIN table |->
        IF k \in Range(keywords) /\ Contains(context, k) THEN table[k] + 1 ELSE table[k]]

\* lines 50-61; acc is [patterns, counts, raised]
LearnProjectName(acc, entry, raw_text) ==
    IF acc.raised \/ "projectName" \notin entry.corrections THEN acc
    ELSE LET counted == [acc EXCEPT !.counts["projectName"] = @ + 1]
         IN  IF entry.correctedData = <<>> THEN [counted EXCEPT !.raised = TRUE]
             ELSE LET project_name == Lower(entry.correctedData[1].projectName)
                  IN  IF ~Contains(raw_text, project_name) THEN counted
                      ELSE LET idx == Min(Occurrences(raw_text, project_name)) - 1
                               lo == IF idx - ContextProject > 0 THEN idx - ContextProject ELSE 0
                               hi == IF idx + Len(project_name) + ContextProject < Len(raw_text)
                                     THEN idx + Len(project_name) + ContextProject
                                     ELSE Len(raw_text)
                           IN  [counted EXCEPT !.patterns.projectName =
                                   TallyContext(@, ProjectPrefixes, Slice(raw_text, lo, hi))]

\* the tallies of lines 72-76 for the matches at the given places
RECURSIVE TallyMatches(_, _, _, _)
TallyMatches(table, raw_text, total, places) ==
    IF places = <<>> THEN table
    ELSE LET start == Head(places) - 1
             stop == start + Len(total)
             lo == IF start - ContextTotal > 0 THEN start - ContextTotal ELSE 0
             hi == IF stop + ContextTotal < Len(raw_text) THEN stop + ContextTotal
                   ELSE Len(raw_text)
         IN  TallyMatches(TallyContext(table, TotalKeywords, Slice(raw_text, lo, hi)),
                          raw_text, total, Tail(places))

\* lines 64-76
LearnInvoicedTotal(acc, entry, raw_text) ==
    IF acc.raised \/ "invoicedTotal" \notin entry.corrections THEN acc
    ELSE LET counted == [acc EXCEPT !.counts["invoicedTotal"] = @ + 1]
         IN  IF entry.correctedData = <<>> THEN [counted EXCEPT !.raised = TRUE]
             ELSE LET total == entry.correctedData[1].invoicedTotal
                  IN  IF total = <<>> THEN counted
                      ELSE [counted EXCEPT !.patterns.invoicedTotal =
                               TallyMatches(@, raw_text, total, FindIter(raw_text, total, 1))]

\* the table is given the running counter, not one more
LearnCurrencyByCounter(acc, entry) ==
    IF acc.raised \/ "currency" \notin entry.corrections THEN acc
    ELSE LET counted == [acc EXCEPT !.counts["currency"] = @ + 1]
         IN  IF entry.correctedData = <<>> THEN [counted EXCEPT !.raised = TRUE]
             ELSE [counted EXCEPT !.patterns.currency[entry.correctedData[1].currency] =
                                      counted.counts["currency"]]

\* lines 79-82
LearnCurrency(acc, entry) ==
    IF acc.raised \/ "currency" \notin entry.corrections THEN acc
    ELSE LET counted == [acc EXCEPT !.counts["currency"] = @ + 1]
         IN  IF entry.correctedData = <<>> THEN [counted EXCEPT !.raised = TRUE]
             ELSE [counted EXCEPT !.patterns.currency[entry.correctedData[1].currency] = @ + 1]

\* The body of the loop of line 43.  entry.get of a value that is no object,
\* .lower() of a null rawText and corrected.get of a null correctedData raise
\* AttributeError, which nothing in the function catches.
ProcessEntry(acc, entry) ==
    IF acc.raised THEN acc
    ELSE IF ~entry.isDict \/ entry.rawText = <<>> THEN [acc EXCEPT !.raised = TRUE]
    ELSE LET raw_text == Lower(entry.rawText[1])
         IN  LearnCurrency(
                 LearnInvoicedTotal(
                     LearnProjectName(acc, entry, raw_text), entry, raw_text), entry)

\* lines 84-88
Result(acc, list) ==
    [ patterns |-> acc.patterns,
      corrections_count |-> acc.counts,
      total_feedback |-> Len(list) ]

---------------------------------------------------------------------------
(* main, load_feedback and analyze_corrections as steps.                   *)

\* lines 15-25 and 116
LoadFeedback ==
    /\ apc = "load"
    /\ feedback' = IF store = "ok" THEN content ELSE <<>>
    /\ apc' = "loaded"
    /\ UNCHANGED <<store, content, entry_index, patterns, corrections_count, analysis>>
    /\ UNCHANGED evars

\* lines 118-120: nothing to learn from
NoFeedback ==
    /\ apc = "loaded"
    /\ feedback = <<>>
    /\ apc' = "nothing"
    /\ UNCHANGED <<store, content, feedback, entry_index, patterns, corrections_count,
                   analysis>>
    /\ UNCHANGED evars

\* lines 125 and 29-41
AnalyzeStart ==
    /\ apc = "loaded"
    /\ feedback # <<>>
    /\ patterns' = EmptyPatterns
    /\ corrections_count' = EmptyCounts
    /\ entry_index' = 1
    /\ apc' = "loop"
    /\ UNCHANGED <<store, content, feedback, analysis>>
    /\ UNCHANGED evars

\* one iteration of the loop of line 43
AnalyzeEntry ==
    /\ apc = "loop"
    /\ entry_index <= Len(feedback)
    /\ LET acc == ProcessEntry([patterns |-> patterns, counts |-> corrections_count,
                                raised |-> FALSE], feedback[entry_index])
       IN  /\ patterns' = acc.patterns
           /\ corrections_count' = acc.counts
           /\ apc' = IF acc.raised THEN "raised" ELSE "loop"
    /\ entry_index' = entry_index + 1
    /\ UNCHANGED <<store, content, feedback, analysis>>
    /\ UNCHANGED evars

\* lines 84-88
AnalyzeReturn ==
    /\ apc = "loop"
    /\ entry_index > Len(feedback)
    /\ analysis' = Result([patterns |-> patterns, counts |-> corrections_count], feedback)
    /\ apc' = "done"
    /\ UNCHANGED <<store, content, feedback, entry_index, patterns, corrections_count>>
    /\ UNCHANGED evars

---------------------------------------------------------------------------
(* The feedback files of the model.                                        *)

Filler(n) == [i \in 1..n |-> "."]

Corrected(name, total, currency) ==
    <<[projectName |-> name, invoicedTotal |-> total, currency |-> currency]>>

\* "Project: Alpha", corrected to "Alpha": the prefix is in the context
EntryNear ==
    [ isDict |-> TRUE, corrections |-> {"projectName"},
      rawText |-> <<<<"P", "r", "o", "j", "e", "c", "t", ":", " ", "A", "l", "p", "h", "a">>>>,
      correctedData |-> Corrected(<<"A", "l", "p", "h", "a">>, <<>>, "CZK") ]

\* "Item", 60 characters, "Beta", corrected to "Beta" and to EUR: the prefix
\* is more than 50 characters before the name
EntryFar ==
    [ isDict |-> TRUE, corrections |-> {"projectName", "currency"},
      rawText |-> <<<<"I", "t", "e", "m">> \o Filler(60) \o <<"B", "e", "t", "a">>>>,
      correctedData |-> Corrected(<<"B", "e", "t", "a">>, <<>>, "EUR") ]

\* "Celkem 500.00", 40 characters, "total 500.00 suma", corrected to "500.00":
\* two matches, each with its own context of 30 characters
EntryTotal ==
    [ isDict |-> TRUE, corrections |-> {"invoicedTotal"},
      rawText |-> <<<<"C", "e", "l", "k", "e", "m", " ", "5", "0", "0", ".", "0", "0">> \o Filler(40) \o <<"t", "o", "t", "a", "l", " ", "5", "0", "0", ".", "0", "0", " ", "s", "u", "m", "a">>>>,
      correctedData |-> Corrected(<<>>, <<"5", "0", "0", ".", "0", "0">>, "CZK") ]

\* only the invoice number was corrected
EntryNumber ==
    [ isDict |-> TRUE, corrections |-> {"invoiceNumber"},
      rawText |-> <<<<"x">>>>,
      correctedData |-> Corrected(<<>>, <<>>, "CZK") ]

\* only the currency was corrected, to CZK
EntryCurrency ==
    [ isDict |-> TRUE, corrections |-> {"currency"},
      rawText |-> <<<<>>>>,
      correctedData |-> Corrected(<<>>, <<>>, "CZK") ]

\* a value that is no object
EntryNotDict ==
    [ isDict |-> FALSE, corrections |-> {}, rawText |-> <<>>, correctedData |-> <<>> ]

\* rawText is null
EntryNullText ==
    [ isDict |-> TRUE, corrections |-> {"currency"},
      rawText |-> <<>>,
      correctedData |-> Corrected(<<>>, <<>>, "EUR") ]

\* correctedData is null and a correction is flagged
EntryNullData ==
    [ isDict |-> TRUE, corrections |-> {"currency"},
      rawText |-> <<<<"x">>>>,
      correctedData |-> <<>> ]

\* correctedData is null and no correction is flagged
EntryNullDataUnflagged ==
    [ isDict |-> TRUE, corrections |-> {},
      rawText |-> <<<<"x">>>>,
      correctedData |-> <<>> ]

Entries ==
    { EntryNear, EntryFar, EntryTotal, EntryNumber, EntryCurrency,
      EntryNotDict, EntryNullText, EntryNullData, EntryNullDataUnflagged }

\* an object whose rawText and correctedData are not null
WellFormed(entry) ==
    entry.isDict /\ entry.rawText # <<>> /\ entry.correctedData # <<>>

InitAnalyze ==
    /\ store \in {"missing", "unreadable", "ok"}
    /\ \E k \in 0..MaxFeedback : content \in [1..k -> Entries]
    /\ store # "ok" => content = <<>>
    /\ feedback = <<>>
    /\ entry_index = 0
    /\ patterns = <<>>
    /\ corrections_count = <<>>
    /\ analysis = <<>>
    /\ apc = "load"
    /\ text = EmptyText
    /\ extracted = Defaults
    /\ all_amounts = <<>>
    /\ md_values = <<>>
    /\ md_rates = <<>>
    /\ pc = "idle"
    /\ pi = 1
    /\ mi = 1
    /\ last = NoLast

NextAnalyze ==
    \/ LoadFeedback
    \/ NoFeedback
    \/ AnalyzeStart
    \/ AnalyzeEntry
    \/ AnalyzeReturn

SpecAnalyze == InitAnalyze /\ [][NextAnalyze]_vars

---------------------------------------------------------------------------
(* Properties of analyze_corrections.                                      *)

EmptyAcc == [patterns |-> EmptyPatterns, counts |-> EmptyCounts, raised |-> FALSE]

\* analyze_corrections on a list, as one function
RECURSIVE AnalyzeFrom(_, _)
AnalyzeFrom(acc, list) ==
    IF list = <<>> THEN acc ELSE AnalyzeFrom(ProcessEntry(acc, Head(list)), Tail(list))

Analyzed(list) == AnalyzeFrom(EmptyAcc, list)

Permuted(list, perm) == [i \in 1..Len(list) |-> list[perm[i]]]

\* C7: analyze_corrections is order-independent: every permutation of the
\* list it analysed gives the same frequency tables, the same correction
\* counts and the same total_feedback.
C7_OrderIndependent ==
    apc = "done"
        => \A perm \in Permutations(1..Len(feedback)) :
              /\ ~Analyzed(Permuted(feedback, perm)).raised
              /\ Result(Analyzed(Permuted(feedback, perm)), Permuted(feedback, perm)) = analysis

\* a list of different entries was analysed and left tallies in two tables
C7_Witness ==
    /\ apc = "done"
    /\ Len(feedback) = 3
    /\ feedback[1] # feedback[2]
    /\ feedback[2] # feedback[3]
    /\ analysis.patterns.currency["EUR"] = 1
    /\ analysis.patterns.currency["CZK"] = 1
    /\ analysis.patterns.projectName[<<"p", "r", "o", "j", "e", "c", "t">>] = 1

Flagged(list, f) == Cardinality({i \in 1..Len(list) : f \in list[i].corrections})

\* C8: after analyze_corrections, for each of the four tracked fields
\* corrections_count[field] is the number of entries whose corrections[field]
\* is true, and total_feedback is the number of entries.
C8_CountsPerField ==
    apc = "done"
        => /\ \A f \in Fields : analysis.corrections_count[f] = Flagged(feedback, f)
           /\ analysis.total_feedback = Len(feedback)

\* C10: a malformed entry is skipped: the run is not aborted, and its result
\* is that of the same list without the malformed entries.
C10_MalformedSkipped ==
    /\ apc # "raised"
    /\ apc = "done"
         => analysis = Result(Analyzed(SelectSeq(feedback, WellFormed)),
                              SelectSeq(feedback, WellFormed))

===========================================================================
